---------------------------- MODULE Spec2Model ----------------------------
(***************************************************************************)
(* A model of data-populator.js (src/unnamed/part_000): the retrying       *)
(* oracle client (withRetry, LLMSource.getAccessStatuses), the batching    *)
(* loop of main, and the read-then-write reconciler upsertRecords against  *)
(* the psychedelic_access table.                                           *)
(*                                                                         *)
(* Four specifications share the actions:                                  *)
(*   SpecRetry      one withRetry invocation, maxRetries drawn from a set; *)
(*   Spec           one run of main: batching, querying, reconciling;      *)
(*   SpecPlan       the same run, the program's own catalog included;      *)
(*   SpecReconcile  upsertRecords run on a record sequence and then run    *)
(*                  again on the same sequence or, from the same starting  *)
(*                  store, on a permutation of it.                         *)
(***************************************************************************)
EXTENDS Integers, Sequences, FiniteSets, TLC

(***************************************************************************)
(* Bounds of the model.                                                    *)
(***************************************************************************)
\* largest maxRetries handed to withRetry in SpecRetry
MaxRetriesBound == 5
\* largest scope catalog and batch size drawn in Spec and SpecPlan
MaxN == 3
MaxB == 2
\* most records accumulated over one run (all batch replies together)
MaxRecords == 2
\* properties of a reply that is an object
MaxKids == 2
\* requests the search handler serves during one upsertRecords
MaxPosts == 1
\* invocations of withRetry, one after another
MaxCalls == 2

(***************************************************************************)
(* Program constants.                                                      *)
(***************************************************************************)
BaseDelay == 2000
CapDelay == 30000
DefaultMaxRetries == 5
NumCountries == 194
DefaultBatchSize == 25
InterBatchPause == 2000

\* SUBSTANCES and COUNTRIES: the catalog is COUNTRIES[1..n], scopes are numbered
\* in catalog order; the records an oracle reply can hold name the first
\* substance and the first two countries.
SUBSTANCES == {"Ketamine"}
RecordCountries == {"AF", "AL"}
Statuses == {"Banned", "Unknown"}

Keys == SUBSTANCES \X RecordCountries

\* a record of an oracle reply: {substance, country_code, access_status}
Records ==
  [substance : SUBSTANCES, country_code : RecordCountries, access_status : Statuses]

KeyOf(rec) == <<rec.substance, rec.country_code>>

\* what the destructuring const { substance, country_code, access_status } = rec
\* gives for a field the record lacks
Undefined == "undefined"

\* the records of a reply that lack the substance or the country_code field
Malformed ==
  {[substance |-> Undefined, country_code |-> "AF", access_status |-> "Banned"],
   [substance |-> "Ketamine", country_code |-> Undefined, access_status |-> "Banned"]}

\* an element of the reply that is null: destructuring it raises a TypeError
NullRecord == [isNull |-> TRUE]

RawRecords == Records \cup Malformed \cup {NullRecord}

Min(a, b) == IF a <= b THEN a ELSE b

RECURSIVE Pow2(_)
Pow2(n) == IF n <= 0 THEN 1 ELSE 2 * Pow2(n - 1)

\* sequences over S of length at most n
SeqUpTo(S, n) == UNION {[1..k -> S] : k \in 0..n}

VARIABLES
  \* ---- withRetry (one invocation) ----
  rpc,          \* "idle" | "call" | "sleep" | "returned" | "thrown"
  maxRetries,   \* the maxRetries argument
  attempt,      \* let attempt
  err,          \* the err of the catch clause (NoErr before any failure)
  delay,        \* const delay of the current wait(delay)
  result,       \* the value returned by withRetry
  thrown,       \* the error withRetry raised
  \* observations of the invocation
  execs,        \* number of executions of fn()
  sleeps,       \* the completed wait(delay) calls, in order
  warns,        \* the WARN events: <<attempt, delay>>
  failures,     \* the err.status values fn() has failed with so far
  \* ---- main ----
  pc,           \* "loop" | "query" | "pause" | "upsert" | "done" | "fatal"; "retry"
                \* when withRetry runs on its own (SpecRetry)
  countries,    \* COUNTRIES (the scope catalog), a sequence
  batchSize,    \* const batchSize
  i,            \* the loop variable of main
  batch,        \* const batch
  allResults,   \* let allResults; the records argument of upsertRecords
  dispatched,   \* the batches handed to getAccessStatuses, in order
  fatalErr,     \* the error main's catch handler received
  \* ---- upsertRecords and the store ----
  store,        \* table psychedelic_access: a set of rows
  nextId,       \* the identity the store gives the next inserted row
  clock,        \* what new Date() returns
  idx,          \* position of rec in records
  upc,          \* "select" | "write": where the loop body stands
  existing,     \* data of the select (NoRow when null)
  ops,          \* the store calls of this upsertRecords invocation, in order
  \* ---- the second run of SpecReconcile ----
  mode,         \* "first" | "same" | "perm"
  store0,       \* the store the first run started from
  final1,       \* the store the first run ended with
  storeErrs,    \* number of store calls that failed, both runs
  \* ---- main: the reply in hand, and the pacing of the queries ----
  results,      \* const results of the loop body (<<>> outside its scope)
  answered,     \* number of getAccessStatuses calls that returned or raised
  sinceAnswer,  \* milliseconds of wait() main completed since the last of them
  \* ---- withRetry called again (SpecRetry) ----
  calls,        \* number of earlier invocations of withRetry
  spent         \* retries the earlier invocations consumed

retryVars == <<rpc, maxRetries, attempt, err, delay, result, thrown, execs, sleeps,
               warns, failures>>
mainVars == <<pc, countries, batchSize, i, batch, allResults, dispatched, fatalErr>>
storeVars == <<store, nextId, clock, idx, upc, existing, ops>>
runVars == <<mode, store0, final1, storeErrs>>
paceVars == <<results, answered, sinceAnswer>>
callVars == <<calls, spent>>
vars == <<retryVars, mainVars, storeVars, runVars, paceVars, callVars>>

(***************************************************************************)
(* withRetry                                                               *)
(***************************************************************************)
\* err.status of the failures fn() can raise; 0 stands for an error without status
ErrStatuses == {0, 400, 429, 500}
NoErr == [status |-> -1, exec |-> 0]
NoValue == [kind |-> "unset"]

\* a variant that also retries the 4xx failures
RetryableFrom400(status) == status = 429 \/ (status # 0 /\ status >= 400)

\* err.status === 429 || (err.status && err.status >= 500)
Retryable(status) == status = 429 \/ (status # 0 /\ status >= 500)

\* a variant without the cap
DelayUncapped(a) == BaseDelay * Pow2(a - 1)

\* Math.min(2000 * 2 ** (attempt - 1), 30000)
Delay(a) == Min(BaseDelay * Pow2(a - 1), CapDelay)

\* a variant that gives up one failure earlier
ExhaustedAtMax(a, m) == a >= m

\* if (attempt > maxRetries) throw err
Exhausted(a, m) == a > m

\* the state of a fresh invocation withRetry(fn, m): let attempt = 0
RetryEntry(m) ==
  /\ rpc = "call"
  /\ maxRetries = m
  /\ attempt = 0
  /\ err = NoErr
  /\ delay = 0
  /\ result = NoValue
  /\ thrown = NoErr
  /\ execs = 0
  /\ sleeps = <<>>
  /\ warns = <<>>
  /\ failures = {}

\* no invocation of withRetry is under way
RetryIdle ==
  /\ rpc = "idle"
  /\ maxRetries = 0
  /\ attempt = 0
  /\ err = NoErr
  /\ delay = 0
  /\ result = NoValue
  /\ thrown = NoErr
  /\ execs = 0
  /\ sleeps = <<>>
  /\ warns = <<>>
  /\ failures = {}

\* return await fn(): the unit of work succeeds with value v
FnReturns(v) ==
  /\ rpc = "call"
  /\ execs' = execs + 1
  /\ result' = v
  /\ rpc' = "returned"
  /\ UNCHANGED <<maxRetries, attempt, err, delay, thrown, sleeps, warns, failures>>

\* a variant that logs the warning before it decides whether to give up
FnThrowsWarnsFirst(status) ==
  /\ rpc = "call"
  /\ execs' = execs + 1
  /\ err' = [status |-> status, exec |-> execs + 1]
  /\ failures' = failures \cup {status}
  /\ attempt' = attempt + 1
  /\ delay' = Delay(attempt')
  /\ warns' = Append(warns, <<attempt', delay'>>)
  /\ IF Exhausted(attempt', maxRetries) \/ ~Retryable(status)
       THEN /\ thrown' = err'
            /\ rpc' = "thrown"
       ELSE /\ rpc' = "sleep"
            /\ UNCHANGED thrown
  /\ UNCHANGED <<maxRetries, result, sleeps>>

\* catch (err): the unit of work fails with err.status = status
FnThrows(status) ==
  /\ rpc = "call"
  /\ execs' = execs + 1
  /\ err' = [status |-> status, exec |-> execs + 1]
  /\ failures' = failures \cup {status}
  /\ attempt' = attempt + 1
  /\ IF Exhausted(attempt', maxRetries)
       THEN /\ thrown' = err'
            /\ rpc' = "thrown"
            /\ UNCHANGED <<delay, warns>>
       ELSE IF Retryable(status)
              THEN /\ delay' = Delay(attempt')
                   /\ warns' = Append(warns, <<attempt', delay'>>)
                   /\ rpc' = "sleep"
                   /\ UNCHANGED thrown
              ELSE /\ thrown' = err'
                   /\ rpc' = "thrown"
                   /\ UNCHANGED <<delay, warns>>
  /\ UNCHANGED <<maxRetries, result, sleeps>>

\* await wait(delay) is over; the loop goes round
WaitOver ==
  /\ rpc = "sleep"
  /\ sleeps' = Append(sleeps, delay)
  /\ rpc' = "call"
  /\ UNCHANGED <<maxRetries, attempt, err, delay, result, thrown, execs, warns,
               failures>>


(***************************************************************************)
(* LLMSource.getAccessStatuses: the reply and its normalisation            *)
(***************************************************************************)
\* response.choices[0]?.message?.content:
\*   [kind |-> "none"]            no content (undefined, null or "")
\*   [kind |-> "text"]            content JSON.parse rejects
\*   [kind |-> "json", val |-> v] content that parses to v, where v is
\*     [t |-> "array", items |-> a sequence]
\*     [t |-> "object", kids |-> the properties [key, val], in Object.values order]
\*     [t |-> "scalar"]           a number, a boolean or a string
\*     [t |-> "null"]
NoContent == [kind |-> "none"]
TextContent == [kind |-> "text"]
Json(v) == [kind |-> "json", val |-> v]
Arr(items) == [t |-> "array", items |-> items]
Obj(kids) == [t |-> "object", kids |-> kids]
Kid(key, val) == [key |-> key, val |-> val]
Scalar == [t |-> "scalar"]
Null == [t |-> "null"]

\* Array.isArray(v)
IsArray(v) == v.t = "array"

\* Object.values(parsed): a scalar has no array-valued child (a string's are its
\* characters), null makes Object.values raise a TypeError
Values(v) ==
  IF v.t = "object" THEN [k \in 1..Len(v.kids) |-> v.kids[k].val] ELSE <<>>

\* a variant that finds the last array-valued child
LastArrayIndex(kids) ==
  IF \E k \in 1..Len(kids) : IsArray(kids[k])
    THEN CHOOSE k \in 1..Len(kids) :
           /\ IsArray(kids[k])
           /\ \A j \in (k + 1)..Len(kids) : ~IsArray(kids[j])
    ELSE 0

\* Object.values(parsed).find((v) => Array.isArray(v)): 0 when there is none
FirstArrayIndex(kids) ==
  IF \E k \in 1..Len(kids) : IsArray(kids[k])
    THEN CHOOSE k \in 1..Len(kids) :
           /\ IsArray(kids[k])
           /\ \A j \in 1..(k - 1) : ~IsArray(kids[j])
    ELSE 0

Failure(e) == [ok |-> FALSE, error |-> e, records |-> <<>>]
Success(recs) == [ok |-> TRUE, error |-> "", records |-> recs]

\* the statements of getAccessStatuses after the await: the records returned,
\* or the error raised
Normalize(content) ==
  IF content.kind = "none" THEN Failure("Empty response from LLM")
  ELSE IF content.kind = "text" THEN Failure("Failed to parse LLM JSON")
  ELSE LET parsed == content.val IN
    IF IsArray(parsed) THEN Success(parsed.items)
    ELSE IF parsed.t = "null" THEN Failure("TypeError")
    ELSE LET k == FirstArrayIndex(Values(parsed)) IN
      IF k # 0 THEN Success(Values(parsed)[k].items)
      ELSE Failure("Expected array of records")

\* the replies drawn in Spec and SpecRetry: every failure class, and each record
\* sequence of at most cap records bare and wrapped in an object
Contents(cap) ==
  {NoContent, TextContent, Json(Scalar), Json(Null),
   Json(Obj(<<Kid("note", Scalar)>>))}
    \cup {Json(Arr(a)) : a \in SeqUpTo(Records, cap)}
    \cup {Json(Obj(<<Kid("note", Scalar), Kid("results", Arr(a))>>)) :
            a \in SeqUpTo(Records, cap)}

\* the replies drawn in SpecReply: the failures, the bare arrays, and every
\* object of at most MaxKids properties whose values are scalars, null, objects
\* and arrays of at most one record
JsonKeys == {"results", "data", "note"}
KidValues == {Scalar, Null, Obj(<<>>)} \cup {Arr(a) : a \in SeqUpTo(Records, 1)}
DistinctKeys(kids) ==
  \A a, b \in 1..Len(kids) : a # b => kids[a].key # kids[b].key
Objects ==
  {Obj(kids) : kids \in {ks \in SeqUpTo([key : JsonKeys, val : KidValues], MaxKids) :
                            DistinctKeys(ks)}}
Replies ==
  {NoContent, TextContent, Json(Scalar), Json(Null)}
    \cup {Json(Arr(a)) : a \in SeqUpTo(Records, MaxRecords)}
    \cup {Json(o) : o \in Objects}

(***************************************************************************)
(* The store: table psychedelic_access                                     *)
(***************************************************************************)
NoRow == [id |-> 0]

RowKey(row) == <<row.substance, row.country_code>>

\* .eq("substance", substance).eq("country_code", country_code); the filter
\* of an undefined value compares with the text "undefined", which no row
\* holds (an inserted row has no value in a column whose field is undefined)
Matching(st, key) ==
  {row \in st : RowKey(row) = key /\ key[1] # Undefined /\ key[2] # Undefined}

\* at most one row per (substance, country_code)
UniqueKeys(st) == \A key \in Keys : Cardinality(Matching(st, key)) <= 1

\* the stores a run can start from: every key absent or present once, ids 1, 2
KeyId(key) == IF key[2] = "AF" THEN 1 ELSE 2
InitialStores ==
  { {[id |-> KeyId(key), substance |-> key[1], country_code |-> key[2],
      access_status |-> f[key], updated_at |-> 0] : key \in DOMAIN f}
    : f \in UNION {[K -> Statuses] : K \in SUBSET Keys} }

\* a stored row {id, substance, country_code, access_status, updated_at}
NewRow(id, rec, now) ==
  [id |-> id, substance |-> rec.substance, country_code |-> rec.country_code,
   access_status |-> rec.access_status, updated_at |-> now]

\* .insert([{substance, country_code, access_status, updated_at}])
InsertRow(st, id, rec, now) == st \cup {NewRow(id, rec, now)}

\* a variant whose update has no filter
UpdateRowAll(st, id, status, now) ==
  {[row EXCEPT !.access_status = status, !.updated_at = now] : row \in st}

\* .update({access_status, updated_at}).eq("id", id)
UpdateRow(st, id, status, now) ==
  {IF row.id = id
     THEN [row EXCEPT !.access_status = status, !.updated_at = now]
     ELSE row : row \in st}

\* POST /rest/v1/psychedelic_access with Prefer: resolution=merge-duplicates,
\* the body the rows of one substance, posted a function country_code ->
\* access_status: a row of a posted key takes the posted status, a posted key
\* without a row gets a new row; one write
MergeRows(st, substance, posted, id, now) ==
  {IF row.substance = substance /\ row.country_code \in DOMAIN posted
     THEN [row EXCEPT !.access_status = posted[row.country_code]]
     ELSE row : row \in st}
  \cup {[id |-> id + KeyId(<<substance, c>>) - 1, substance |-> substance,
         country_code |-> c, access_status |-> posted[c], updated_at |-> now] :
          c \in {d \in DOMAIN posted : Matching(st, <<substance, d>>) = {}}}

\* .maybeSingle(): null for no row, the row for one, an error for several
SelectFails(st, key) == Cardinality(Matching(st, key)) > 1
SelectData(st, key) ==
  IF Matching(st, key) = {} THEN NoRow ELSE CHOOSE row \in Matching(st, key) : TRUE

\* a variant that writes an unchanged row again
DecisionAlwaysUpdate(ex, rec) == IF ex = NoRow THEN "insert" ELSE "update"

\* a variant that inserts the changed status as a new row
DecisionInsertOnChange(ex, rec) ==
  IF ex = NoRow THEN "insert"
  ELSE IF ex.access_status # rec.access_status THEN "insert"
  ELSE "skip"

\* the branch of the loop body of upsertRecords:
\* if (!existing) insert, else if (existing.access_status !== access_status)
\* update, else skip
Decision(ex, rec) ==
  IF ex = NoRow THEN "insert"
  ELSE IF ex.access_status # rec.access_status THEN "update"
  ELSE "skip"

(***************************************************************************)
(* upsertRecords(records), records = allResults                            *)
(***************************************************************************)
\* a variant that leaves the loop on a fetch error
AfterFetchErrorReturn(n, len) == len + 1

\* if (fetchErr) { ...; continue }: the position of the next record
AfterFetchError(n, len) == n + 1

StoreCall(op, n, ok, rec, now) ==
  [op |-> op, i |-> n, ok |-> ok, key |-> KeyOf(rec),
   status |-> rec.access_status, at |-> now]

\* await supabase.from(...).select("*").eq(...).eq(...).maybeSingle(), and
\* if (fetchErr) { log; continue }
Select(ok) ==
  /\ pc = "upsert"
  /\ upc = "select"
  /\ idx <= Len(allResults)
  /\ allResults[idx] # NullRecord
  /\ LET rec == allResults[idx]
         good == ok /\ ~SelectFails(store, KeyOf(rec))
     IN /\ ops' = Append(ops, StoreCall("select", idx, good, rec, clock))
        /\ IF good
             THEN /\ existing' = SelectData(store, KeyOf(rec))
                  /\ upc' = "write"
                  /\ UNCHANGED <<idx, storeErrs>>
             ELSE /\ idx' = AfterFetchError(idx, Len(allResults))
                  /\ storeErrs' = storeErrs + 1
                  /\ UNCHANGED <<existing, upc>>
  /\ clock' = clock + 1
  /\ UNCHANGED <<store, nextId>>
  /\ UNCHANGED <<retryVars, mainVars, mode, store0, final1, paceVars, callVars>>

\* the insert, the update or the skip of the loop body, and its log line
Write(ok) ==
  /\ pc = "upsert"
  /\ upc = "write"
  /\ LET rec == allResults[idx]
         d == Decision(existing, rec)
     IN CASE d = "insert" ->
               /\ ops' = Append(ops, StoreCall("insert", idx, ok, rec, clock))
               /\ store' = IF ok THEN InsertRow(store, nextId, rec, clock) ELSE store
               /\ nextId' = IF ok THEN nextId + 1 ELSE nextId
               /\ storeErrs' = IF ok THEN storeErrs ELSE storeErrs + 1
          [] d = "update" ->
               /\ ops' = Append(ops, StoreCall("update", idx, ok, rec, clock))
               /\ store' = IF ok
                             THEN UpdateRow(store, existing.id, rec.access_status, clock)
                             ELSE store
               /\ storeErrs' = IF ok THEN storeErrs ELSE storeErrs + 1
               /\ UNCHANGED nextId
          [] OTHER ->
               /\ ok
               /\ UNCHANGED <<ops, store, nextId, storeErrs>>
  /\ idx' = idx + 1
  /\ upc' = "select"
  /\ existing' = NoRow
  /\ UNCHANGED clock
  /\ UNCHANGED <<retryVars, mainVars, mode, store0, final1, paceVars, callVars>>

\* const { substance, country_code, access_status } = rec raises for a rec
\* that is null: upsertRecords raises, main().catch logs the fatal error
RecordThrows ==
  /\ pc = "upsert"
  /\ upc = "select"
  /\ idx <= Len(allResults)
  /\ allResults[idx] = NullRecord
  /\ fatalErr' = [kind |-> "reconcile", error |-> "TypeError"]
  /\ pc' = "fatal"
  /\ UNCHANGED <<countries, batchSize, i, batch, allResults, dispatched>>
  /\ UNCHANGED <<retryVars, storeVars, runVars, paceVars, callVars>>

\* the for loop of upsertRecords is over; main logs "=== Finished ==="
UpsertReturns ==
  /\ pc = "upsert"
  /\ upc = "select"
  /\ idx > Len(allResults)
  /\ pc' = "done"
  /\ UNCHANGED <<countries, batchSize, i, batch, allResults, dispatched, fatalErr>>
  /\ UNCHANGED <<retryVars, storeVars, runVars, paceVars, callVars>>

(***************************************************************************)
(* main                                                                    *)
(***************************************************************************)
NoFatal == [kind |-> "none"]

\* a variant whose slice takes the element at its end index too
SliceInclusive(seq, from, to) == SubSeq(seq, from + 1, Min(to + 1, Len(seq)))

\* COUNTRIES.slice(from, to), from and to counted from 0
Slice(seq, from, to) == SubSeq(seq, from + 1, Min(to, Len(seq)))

\* the loop test i < COUNTRIES.length
MoreBatches(n, len) == n < len

\* i += batchSize
Advance(n, size) == n + size

\* a variant that keeps only the records of the last reply
ConcatOverwrites(all, recs) == recs

\* allResults = allResults.concat(results)
Concat(all, recs) == all \o recs

\* a variant that starts the timer and does not await it
PausedNotAwaited(ms) == ms

\* await wait(2000): the milliseconds waited since the last answer
Paused(ms) == ms + InterBatchPause

\* a variant whose attempt counter outlives the invocation
EnterRetryShared(m) ==
  /\ rpc' = "call"
  /\ maxRetries' = m
  /\ attempt' = attempt
  /\ err' = NoErr
  /\ delay' = 0
  /\ result' = NoValue
  /\ thrown' = NoErr
  /\ execs' = 0
  /\ sleeps' = <<>>
  /\ warns' = <<>>
  /\ failures' = {}

\* withRetry(fn, m) is called: let attempt = 0
EnterRetry(m) ==
  /\ rpc' = "call"
  /\ maxRetries' = m
  /\ attempt' = 0
  /\ err' = NoErr
  /\ delay' = 0
  /\ result' = NoValue
  /\ thrown' = NoErr
  /\ execs' = 0
  /\ sleeps' = <<>>
  /\ warns' = <<>>
  /\ failures' = {}

LeaveRetry ==
  /\ rpc' = "idle"
  /\ maxRetries' = 0
  /\ attempt' = 0
  /\ err' = NoErr
  /\ delay' = 0
  /\ result' = NoValue
  /\ thrown' = NoErr
  /\ execs' = 0
  /\ sleeps' = <<>>
  /\ warns' = <<>>
  /\ failures' = {}

\* the loop test holds: const batch = COUNTRIES.slice(i, i + batchSize), and
\* llm.getAccessStatuses(SUBSTANCES, batch) calls withRetry(fn)
Dispatch ==
  /\ pc = "loop"
  /\ MoreBatches(i, Len(countries))
  /\ batch' = Slice(countries, i, i + batchSize)
  /\ dispatched' = Append(dispatched, batch')
  /\ EnterRetry(DefaultMaxRetries)
  /\ pc' = "query"
  /\ UNCHANGED <<countries, batchSize, i, allResults, fatalErr>>
  /\ UNCHANGED <<storeVars, runVars, paceVars, callVars>>

\* fn() fails inside withRetry
QueryFnThrows(status) ==
  /\ pc = "query"
  /\ FnThrows(status)
  /\ UNCHANGED <<mainVars, storeVars, runVars, paceVars, callVars>>

\* a backoff sleep of withRetry ends
QueryWaitOver ==
  /\ pc = "query"
  /\ WaitOver
  /\ UNCHANGED <<mainVars, storeVars, runVars, paceVars, callVars>>

\* fn() succeeds, withRetry returns the response, getAccessStatuses normalises
\* its content and either returns the records, which main appends to allResults
\* before await wait(2000), or raises, which ends main in its catch handler
QueryReturns(content) ==
  /\ pc = "query"
  /\ rpc = "call"
  /\ LET r == Normalize(content)
     IN IF r.ok
          THEN /\ results' = r.records
               /\ allResults' = Concat(allResults, results')
               /\ pc' = "pause"
               /\ UNCHANGED fatalErr
          ELSE /\ fatalErr' = [kind |-> "reply", error |-> r.error]
               /\ pc' = "fatal"
               /\ UNCHANGED <<allResults, results>>
  /\ answered' = answered + 1
  /\ sinceAnswer' = 0
  /\ LeaveRetry
  /\ UNCHANGED <<countries, batchSize, i, batch, dispatched>>
  /\ UNCHANGED <<storeVars, runVars, callVars>>

\* a variant that swallows the failure of a batch and goes on to reconcile
QueryThrowsSwallowed ==
  /\ pc = "query"
  /\ rpc = "thrown"
  /\ fatalErr' = [kind |-> "oracle", error |-> thrown.status]
  /\ pc' = "upsert"
  /\ answered' = answered + 1
  /\ sinceAnswer' = 0
  /\ LeaveRetry
  /\ UNCHANGED <<countries, batchSize, i, batch, allResults, dispatched, results>>
  /\ UNCHANGED <<storeVars, runVars, callVars>>

\* withRetry raises: main().catch logs the fatal error and exits with 1
QueryThrows ==
  /\ pc = "query"
  /\ rpc = "thrown"
  /\ fatalErr' = [kind |-> "oracle", error |-> thrown.status]
  /\ pc' = "fatal"
  /\ answered' = answered + 1
  /\ sinceAnswer' = 0
  /\ LeaveRetry
  /\ UNCHANGED <<countries, batchSize, i, batch, allResults, dispatched, results>>
  /\ UNCHANGED <<storeVars, runVars, callVars>>

\* await wait(2000) is over: the loop body ends, i += batchSize
PauseOver ==
  /\ pc = "pause"
  /\ sinceAnswer' = Paused(sinceAnswer)
  /\ results' = <<>>
  /\ i' = Advance(i, batchSize)
  /\ pc' = "loop"
  /\ UNCHANGED <<countries, batchSize, batch, allResults, dispatched, fatalErr>>
  /\ UNCHANGED <<retryVars, storeVars, runVars, answered, callVars>>

\* the loop test fails: await upsertRecords(allResults)
LoopExit ==
  /\ pc = "loop"
  /\ ~MoreBatches(i, Len(countries))
  /\ pc' = "upsert"
  /\ UNCHANGED <<countries, batchSize, i, batch, allResults, dispatched, fatalErr>>
  /\ UNCHANGED <<retryVars, storeVars, runVars, paceVars, callVars>>

(***************************************************************************)
(* Initial states                                                          *)
(***************************************************************************)
MainIdle ==
  /\ countries = <<>>
  /\ batchSize = DefaultBatchSize
  /\ i = 0
  /\ batch = <<>>
  /\ allResults = <<>>
  /\ dispatched = <<>>
  /\ fatalErr = NoFatal

\* the stores a run of Spec starts from: as InitialStores, every row Banned (the
\* code compares statuses only for equality, and replies hold either status)
RunStores == {st \in InitialStores : \A row \in st : row.access_status = "Banned"}

StoreInit(stores) ==
  /\ store \in stores
  /\ nextId = Cardinality(Keys) + 1
  /\ clock = 1
  /\ idx = 1
  /\ upc = "select"
  /\ existing = NoRow
  /\ ops = <<>>
  /\ mode = "first"
  /\ store0 = store
  /\ final1 = {}
  /\ storeErrs = 0
  /\ results = <<>>
  /\ answered = 0
  /\ sinceAnswer = 0
  /\ calls = 0
  /\ spent = 0

\* the scope catalogs (by size) and batch sizes drawn, and the program's own
Plans == (0..MaxN) \X (1..MaxB)
ProgramPlan == <<NumCountries, DefaultBatchSize>>

\* main starts: const batchSize, let allResults = [], i = 0
MainEntry(plans, stores) ==
  /\ pc = "loop"
  /\ \E plan \in plans :
       /\ countries = [k \in 1..plan[1] |-> k]
       /\ batchSize = plan[2]
  /\ i = 0
  /\ batch = <<>>
  /\ allResults = <<>>
  /\ dispatched = <<>>
  /\ fatalErr = NoFatal
  /\ RetryIdle
  /\ StoreInit(stores)

Init == MainEntry(Plans, RunStores)

Next ==
  \/ Dispatch
  \/ \E status \in ErrStatuses : QueryFnThrows(status)
  \/ QueryWaitOver
  \/ \E content \in Contents(MaxRecords - Len(allResults)) : QueryReturns(content)
  \/ QueryThrows
  \/ PauseOver
  \/ LoopExit
  \/ \E ok \in BOOLEAN : Select(ok)
  \/ \E ok \in BOOLEAN : Write(ok)
  \/ UpsertReturns

Spec == Init /\ [][Next]_vars

\* SpecRaw: main with replies whose records may lack a field, the table empty
\* at the start
RawContents(cap) == {NoContent} \cup {Json(Arr(a)) : a \in SeqUpTo(RawRecords, cap)}

InitRaw == MainEntry(Plans, {{}})

NextRaw ==
  \/ Dispatch
  \/ \E status \in ErrStatuses : QueryFnThrows(status)
  \/ QueryWaitOver
  \/ \E content \in RawContents(MaxRecords - Len(allResults)) : QueryReturns(content)
  \/ QueryThrows
  \/ PauseOver
  \/ LoopExit
  \/ \E ok \in BOOLEAN : Select(ok)
  \/ \E ok \in BOOLEAN : Write(ok)
  \/ RecordThrows
  \/ UpsertReturns

SpecRaw == InitRaw /\ [][NextRaw]_vars

\* every call returns and every timer fires: main, a single sequence of awaits,
\* takes its next step
SpecRawLive == SpecRaw /\ WF_vars(NextRaw)

\* SpecPlan: main over the drawn plans and over the program's own catalog of 194
\* scopes in batches of 25, the table empty at the start
InitPlan == MainEntry(Plans \cup {ProgramPlan}, {{}})

SpecPlan == InitPlan /\ [][Next]_vars

(***************************************************************************)
(* SpecRetry: withRetry(fn, m) alone                                       *)
(***************************************************************************)
RetryFnReturns(v) ==
  /\ pc = "retry"
  /\ FnReturns(v)
  /\ UNCHANGED <<mainVars, storeVars, runVars, paceVars, callVars>>

RetryFnThrows(status) ==
  /\ pc = "retry"
  /\ FnThrows(status)
  /\ UNCHANGED <<mainVars, storeVars, runVars, paceVars, callVars>>

RetryWaitOver ==
  /\ pc = "retry"
  /\ WaitOver
  /\ UNCHANGED <<mainVars, storeVars, runVars, paceVars, callVars>>

\* withRetry returned and is called again with the same maxRetries, as
\* getAccessStatuses calls it for the next batch
RetryAgain ==
  /\ pc = "retry"
  /\ rpc = "returned"
  /\ calls + 1 < MaxCalls
  /\ calls' = calls + 1
  /\ spent' = spent + attempt
  /\ EnterRetry(maxRetries)
  /\ UNCHANGED <<mainVars, storeVars, runVars, paceVars>>

InitRetry ==
  /\ pc = "retry"
  /\ MainIdle
  /\ \E m \in 0..MaxRetriesBound : RetryEntry(m)
  /\ StoreInit({{}})

NextRetry ==
  \/ \E v \in Contents(1) : RetryFnReturns(v)
  \/ \E status \in ErrStatuses : RetryFnThrows(status)
  \/ RetryWaitOver
  \/ RetryAgain

SpecRetry == InitRetry /\ [][NextRetry]_vars

(***************************************************************************)
(* SpecReply: one call of getAccessStatuses from main                      *)
(***************************************************************************)
\* withRetry returns the response of the API call
ReplyFnReturns(v) ==
  /\ pc = "reply"
  /\ FnReturns(v)
  /\ UNCHANGED <<mainVars, storeVars, runVars, paceVars, callVars>>

\* the statements of getAccessStatuses after the await: main receives the
\* records, or its catch handler the error
ReplyNormalized ==
  /\ pc = "reply"
  /\ rpc = "returned"
  /\ LET r == Normalize(result)
     IN IF r.ok
          THEN /\ results' = r.records
               /\ pc' = "replied"
               /\ UNCHANGED fatalErr
          ELSE /\ fatalErr' = [kind |-> "reply", error |-> r.error]
               /\ pc' = "fatal"
               /\ UNCHANGED results
  /\ answered' = answered + 1
  /\ UNCHANGED <<countries, batchSize, i, batch, allResults, dispatched>>
  /\ UNCHANGED <<retryVars, storeVars, runVars, sinceAnswer, callVars>>

InitReply ==
  /\ pc = "reply"
  /\ MainIdle
  /\ RetryEntry(DefaultMaxRetries)
  /\ StoreInit({{}})

NextReply ==
  \/ \E v \in Replies : ReplyFnReturns(v)
  \/ ReplyNormalized

SpecReply == InitReply /\ [][NextReply]_vars

(***************************************************************************)
(* SpecReconcile: upsertRecords(records) twice                             *)
(***************************************************************************)
\* the orders a sequence can be given in
Reorderings(seq) ==
  {[k \in 1..Len(seq) |-> seq[p[k]]] : p \in Permutations(1..Len(seq))}

\* upsertRecords is called again with the same records, the store as it is
RunAgain ==
  /\ pc = "done"
  /\ mode = "first"
  /\ mode' = "same"
  /\ final1' = store
  /\ pc' = "upsert"
  /\ idx' = 1
  /\ ops' = <<>>
  /\ UNCHANGED <<countries, batchSize, i, batch, allResults, dispatched, fatalErr>>
  /\ UNCHANGED <<store, nextId, clock, upc, existing, store0, storeErrs>>
  /\ UNCHANGED <<retryVars, paceVars, callVars>>

\* upsertRecords is called with the records in another order, the store put
\* back to what the first run started from
RunPermuted ==
  /\ pc = "done"
  /\ mode = "first"
  /\ mode' = "perm"
  /\ final1' = store
  /\ store' = store0
  /\ nextId' = Cardinality(Keys) + 1
  /\ allResults' \in Reorderings(allResults)
  /\ pc' = "upsert"
  /\ idx' = 1
  /\ ops' = <<>>
  /\ UNCHANGED <<countries, batchSize, i, batch, dispatched, fatalErr>>
  /\ UNCHANGED <<clock, upc, existing, store0, storeErrs>>
  /\ UNCHANGED <<retryVars, paceVars, callVars>>

InitReconcile ==
  /\ pc = "upsert"
  /\ countries = <<>>
  /\ batchSize = DefaultBatchSize
  /\ i = 0
  /\ batch = <<>>
  /\ allResults \in SeqUpTo(Records, MaxRecords)
  /\ dispatched = <<>>
  /\ fatalErr = NoFatal
  /\ RetryIdle
  /\ StoreInit(InitialStores)

NextReconcile ==
  \/ \E ok \in BOOLEAN : Select(ok)
  \/ \E ok \in BOOLEAN : Write(ok)
  \/ UpsertReturns
  \/ RunAgain
  \/ RunPermuted

SpecReconcile == InitReconcile /\ [][NextReconcile]_vars

(***************************************************************************)
(* SpecRace: upsertRecords(records) while the search handler of server.js  *)
(* writes to the same table                                                *)
(***************************************************************************)
\* the bodies the handler posts: the statuses of some countries
Posts == UNION {[C -> Statuses] : C \in SUBSET RecordCountries \ {{}}}

PostsMade == Cardinality({k \in 1..Len(ops) : ops[k].op = "post"})

\* app.post("/api/search-substance"): the rows of one substance are upserted
\* in one request, at any point of upsertRecords
ExternalUpsert(substance, posted) ==
  /\ pc = "upsert"
  /\ PostsMade < MaxPosts
  /\ store' = MergeRows(store, substance, posted, nextId, clock)
  /\ nextId' = nextId + Cardinality(Keys)
  /\ ops' = Append(ops, [op |-> "post", i |-> 0, ok |-> TRUE,
                          substance |-> substance, rows |-> posted, at |-> clock])
  /\ clock' = clock + 1
  /\ UNCHANGED <<idx, upc, existing>>
  /\ UNCHANGED <<retryVars, mainVars, runVars, paceVars, callVars>>

NextRace ==
  \/ \E ok \in BOOLEAN : Select(ok)
  \/ \E ok \in BOOLEAN : Write(ok)
  \/ UpsertReturns
  \/ \E substance \in SUBSTANCES, posted \in Posts : ExternalUpsert(substance, posted)

SpecRace == InitReconcile /\ [][NextRace]_vars

(***************************************************************************)
(* Properties of withRetry, checked under SpecRetry                        *)
(***************************************************************************)
\* C3 as stated: a unit of work that fails with status 429 on every execution
\* makes withRetry(fn, m), m >= 1, raise after exactly m executions.
C3_RaisesAfterMaxRetriesExecutions ==
  (rpc = "thrown" /\ failures = {429} /\ maxRetries >= 1) => execs = maxRetries

\* C3 amended: a unit of work that fails with status 429 on every execution
\* makes withRetry(fn, m) raise after exactly m + 1 executions, that is after m
\* retries, each preceded by a sleep and a warning; it never raises earlier.
C3_RaisesAfterMaxRetriesPlusOne ==
  (rpc = "thrown" /\ failures = {429}) =>
    /\ execs = maxRetries + 1
    /\ Len(sleeps) = maxRetries
    /\ Len(warns) = maxRetries
    /\ thrown.status = 429

C3_Witness ==
  /\ rpc = "thrown"
  /\ failures = {429}
  /\ maxRetries = DefaultMaxRetries
  /\ execs = DefaultMaxRetries + 1

\* C4: after k <= maxRetries failures, all of them retryable (429 or >= 500),
\* withRetry has not raised, and when the unit of work then succeeds withRetry
\* returns its value; the sleep before the i-th retry was
\* min(2000 * 2^(i-1), 30000) ms, never more than 30000.
C4_BackoffThenSuccess ==
  /\ (execs <= maxRetries /\ \A st \in failures : st = 429 \/ st >= 500)
       => rpc # "thrown"
  /\ rpc = "returned" =>
       /\ result \in Contents(1)
       /\ thrown = NoErr
       /\ Len(sleeps) = execs - 1
       /\ execs - 1 <= maxRetries
       /\ \A st \in failures : st = 429 \/ st >= 500
  /\ \A k \in 1..Len(sleeps) :
       /\ sleeps[k] = (IF 2000 * 2^(k - 1) < 30000 THEN 2000 * 2^(k - 1) ELSE 30000)
       /\ sleeps[k] <= 30000

\* three failures cost 2000, 4000 and 8000 ms, the fifth sleep is capped
C4_Witness ==
  /\ rpc = "returned"
  /\ execs = 6
  /\ sleeps = <<2000, 4000, 8000, 16000, 30000>>

\* C5: a failure whose status is neither 429 nor >= 500 (an error without
\* status included) ends withRetry at once: it is raised as it is by the
\* execution that met it, nothing is executed, slept or warned after it, and
\* when it is the first failure the unit of work ran exactly once.
C5_NonRetryablePropagates ==
  /\ (\E st \in failures : ~(st = 429 \/ st >= 500)) =>
       /\ rpc = "thrown"
       /\ thrown = err
       /\ ~(thrown.status = 429 \/ thrown.status >= 500)
       /\ thrown.exec = execs
       /\ Len(sleeps) = execs - 1
       /\ Len(warns) = execs - 1
  /\ (rpc = "thrown" /\ \A st \in failures : ~(st = 429 \/ st >= 500)) =>
       /\ execs = 1
       /\ sleeps = <<>>
       /\ warns = <<>>

\* an error without status, met on the first execution with retries to spare
C5_Witness ==
  /\ rpc = "thrown"
  /\ thrown.status = 0
  /\ execs = 1
  /\ maxRetries = DefaultMaxRetries

(***************************************************************************)
(* Properties of a run of main, checked under Spec (C6: under SpecPlan)    *)
(***************************************************************************)
RECURSIVE Flatten(_)
Flatten(seqs) == IF seqs = <<>> THEN <<>> ELSE Head(seqs) \o Flatten(Tail(seqs))

\* C2: a run in which a batch's query fails fatally (retries exhausted, a
\* non-retryable failure, an empty, unparsable or misshapen reply) makes no store
\* call and leaves the store as it was, whatever earlier batches returned;
\* upsertRecords runs only once every batch has been queried successfully.
C2_NoReconcileAfterFatal ==
  /\ fatalErr # NoFatal =>
       /\ pc = "fatal"
       /\ ops = <<>>
       /\ store = store0
       /\ idx = 1
  /\ pc = "fatal" => fatalErr # NoFatal
  /\ (pc \in {"upsert", "done"} \/ ops # <<>>) =>
       /\ fatalErr = NoFatal
       /\ i >= Len(countries)
       /\ Flatten(dispatched) = countries

\* records of an earlier batch are in hand when a later query exhausts its retries
C2_Witness ==
  /\ pc = "fatal"
  /\ fatalErr.kind = "oracle"
  /\ allResults # <<>>
  /\ Len(dispatched) = 2
  /\ store # {}

\* C6: the batches dispatched are contiguous slices of at most batchSize scopes
\* whose concatenation, in dispatch order, is a prefix of the catalog; once the
\* loop is over there are ceil(N/B) of them and the concatenation is the whole
\* catalog, so every scope was sent exactly once.
C6_BatchCoverage ==
  LET n == Len(countries)
      flat == Flatten(dispatched)
  IN /\ Len(flat) <= n
     /\ flat = SubSeq(countries, 1, Len(flat))
     /\ \A k \in 1..Len(dispatched) :
          /\ Len(dispatched[k]) >= 1
          /\ Len(dispatched[k]) <= batchSize
          /\ dispatched[k] =
               [j \in 1..Len(dispatched[k]) |-> countries[(k - 1) * batchSize + j]]
          /\ k < Len(dispatched) => Len(dispatched[k]) = batchSize
     /\ pc \in {"upsert", "done"} =>
          /\ flat = countries
          /\ Len(dispatched) * batchSize >= n
          /\ (Len(dispatched) - 1) * batchSize < n \/ n = 0
          /\ n = 0 => dispatched = <<>>

\* the program's own catalog: 194 scopes in batches of 25 make 8 batches, the
\* last of 19
C6_Witness ==
  /\ pc = "done"
  /\ Len(countries) = NumCountries
  /\ batchSize = DefaultBatchSize
  /\ Len(dispatched) = 8
  /\ Len(dispatched[8]) = 19

\* C7: a record whose lookup succeeded meets the decision table. No row with its
\* key: one insert of the record's status at the current time. A row with the
\* same status: no store call, the store unchanged. A row with another status:
\* one update, which sets that row's status and stamps it with the current time.
\* The lookup itself writes nothing.
C7_DecisionStep ==
  /\ (pc = "upsert" /\ upc = "select") => store' = store
  /\ (pc = "upsert" /\ upc = "write") =>
    LET rec == allResults[idx]
        rows == Matching(store, KeyOf(rec))
        call == ops'[Len(ops')]
    IN /\ idx' = idx + 1
       /\ rows = {} =>
            /\ Len(ops') = Len(ops) + 1
            /\ SubSeq(ops', 1, Len(ops)) = ops
            /\ call.op = "insert" /\ call.key = KeyOf(rec)
            /\ call.status = rec.access_status /\ call.at = clock
            /\ ~call.ok => store' = store
            /\ call.ok =>
                 /\ store \subseteq store'
                 /\ Cardinality(store' \ store) = 1
                 /\ \A row \in store' \ store :
                      /\ RowKey(row) = KeyOf(rec)
                      /\ row.access_status = rec.access_status
                      /\ row.updated_at = clock
                      /\ \A old \in store : old.id # row.id
       /\ (rows # {} /\ \A row \in rows : row.access_status = rec.access_status) =>
            /\ ops' = ops
            /\ store' = store
       /\ (rows # {} /\ \E row \in rows : row.access_status # rec.access_status) =>
            /\ Len(ops') = Len(ops) + 1
            /\ SubSeq(ops', 1, Len(ops)) = ops
            /\ call.op = "update" /\ call.key = KeyOf(rec)
            /\ call.status = rec.access_status /\ call.at = clock
            /\ ~call.ok => store' = store
            /\ call.ok =>
                 store' = (store \ rows) \cup
                   {[row EXCEPT !.access_status = rec.access_status,
                                !.updated_at = clock] : row \in rows}

C7_DecisionTable == [][C7_DecisionStep]_vars

\* one run has inserted a row, updated a row of the starting store and stamped
\* it anew
C7_Witness ==
  /\ pc = "done"
  /\ \E a, b \in 1..Len(ops) :
       /\ ops[a].op = "insert" /\ ops[a].ok
       /\ ops[b].op = "update" /\ ops[b].ok
  /\ \E row \in store : \E old \in store0 :
       /\ row.id = old.id
       /\ row.access_status # old.access_status
       /\ row.updated_at > old.updated_at

\* the store calls made for record n
CallsFor(n) == {k \in 1..Len(ops) : ops[k].i = n}

\* C8: every record reached gets exactly one lookup, in order; a record whose
\* lookup failed gets no insert and no update; a failed lookup, insert or update
\* does not keep the later records from being processed, so a finished
\* upsertRecords has looked up every record; store failures never make the run
\* fatal, and upsertRecords can always take its next step towards Finished.
C8_StoreFailuresIsolated ==
  /\ \A k \in 1..Len(ops) : k > 1 => ops[k - 1].i <= ops[k].i
  /\ \A n \in 1..Len(allResults) :
       LET selects == {k \in CallsFor(n) : ops[k].op = "select"}
           writes == {k \in CallsFor(n) : ops[k].op # "select"}
       IN /\ Cardinality(selects) <= 1
          /\ Cardinality(writes) <= 1
          /\ (pc \in {"upsert", "done"} /\ (n < idx \/ pc = "done"))
               => Cardinality(selects) = 1
          /\ (\E k \in selects : ~ops[k].ok) => writes = {}
          /\ writes # {} => \E k \in selects : ops[k].ok
  /\ storeErrs = Cardinality({k \in 1..Len(ops) : ~ops[k].ok})
  /\ storeErrs > 0 => (pc \in {"upsert", "done"} /\ fatalErr = NoFatal)
  /\ pc = "upsert" =>
       ENABLED (\/ \E ok \in BOOLEAN : Select(ok)
                \/ \E ok \in BOOLEAN : Write(ok)
                \/ UpsertReturns)

\* the first record's lookup fails, the second record is still written, and the
\* run finishes
C8_Witness ==
  /\ pc = "done"
  /\ Len(allResults) = 2
  /\ \E k \in CallsFor(1) : ops[k].op = "select" /\ ~ops[k].ok
  /\ \E k \in CallsFor(2) : ops[k].op \in {"insert", "update"} /\ ops[k].ok

(***************************************************************************)
(* Properties of upsertRecords run twice, checked under SpecReconcile      *)
(***************************************************************************)
\* the status stored for a key: the statuses of its rows
StatusesAt(st, key) == {row.access_status : row \in Matching(st, key)}

\* C1 as stated: with no store error, a second upsertRecords on the same
\* records makes no insert and no update, and ends with the store the first
\* run left.
C1_SecondRunWritesNothing ==
  (mode = "same" /\ storeErrs = 0) =>
    /\ \A k \in 1..Len(ops) : ops[k].op = "select"
    /\ pc = "done" => store = final1

\* C9 as stated: with no store error, upsertRecords on a permutation of the
\* records, from the same starting store, ends with the same status for every
\* key as the run on the records themselves.
C9_OrderIndependent ==
  (mode = "perm" /\ pc = "done" /\ storeErrs = 0) =>
    \A key \in Keys : StatusesAt(store, key) = StatusesAt(final1, key)

\* C10: from a store with at most one row per (substance, country_code), every
\* state reached by upsertRecords runs, store failures included, has at most one
\* row per (substance, country_code), and no two rows share an id.
C10_UniqueRows ==
  \A r1, r2 \in store :
    (RowKey(r1) = RowKey(r2) \/ r1.id = r2.id) => r1 = r2

\* two runs over an empty store have inserted a row for each key
C10_Witness ==
  /\ mode = "same"
  /\ pc = "done"
  /\ store0 = {}
  /\ Cardinality(store) = Cardinality(Keys)
  /\ \E row \in store : row.id > Cardinality(Keys)
(***************************************************************************)
(* Records that lack a field, checked under SpecRaw                        *)
(***************************************************************************)
\* C11: a record of a reply that lacks its substance or its country_code is
\* dropped before upsertRecords: no select, insert or update is made for it,
\* and it does not end the run.
C11_MalformedDropped ==
  /\ \A k \in 1..Len(ops) : allResults[ops[k].i] \notin Malformed
  /\ fatalErr.kind # "reconcile"

(***************************************************************************)
(* Properties of getAccessStatuses, checked under SpecReply                *)
(***************************************************************************)
\* the positions of the array-valued properties of an object
ArrayKids(v) == {k \in 1..Len(v.kids) : v.kids[k].val.t = "array"}

\* getAccessStatuses has run to its end on the reply in result
Normalized == pc \in {"replied", "fatal"} /\ rpc = "returned"

\* C12: a reply that is the bare array A makes getAccessStatuses return A; so
\* does a reply that is an object whose only array-valued property, under any
\* key, is A (A empty included); an object with several array-valued
\* properties gives the first of them in property order.
C12_ShapeTolerance ==
  (Normalized /\ result.kind = "json") =>
    LET v == result.val
    IN /\ v.t = "array" => (pc = "replied" /\ results = v.items)
       /\ (v.t = "object" /\ ArrayKids(v) # {}) =>
            /\ pc = "replied"
            /\ \E k \in ArrayKids(v) :
                 /\ \A j \in ArrayKids(v) : k <= j
                 /\ results = v.kids[k].val.items

C12_Witness ==
  /\ Normalized
  /\ result.kind = "json"
  /\ result.val.t = "object"
  /\ Len(result.val.kids) = 2
  /\ result.val.kids[1].val.t = "array"
  /\ result.val.kids[2].val.t = "array"
  /\ result.val.kids[1].val.items # result.val.kids[2].val.items
  /\ results = result.val.kids[1].val.items

\* C13: no content gives the empty-reply error, content that does not parse
\* the malformed-JSON error, and a parsed value that is neither an array nor
\* has an array-valued property (an object without one, a scalar, null) the
\* unexpected-shape error; each ends the run in main's catch handler.
C13_ReplyFailureClasses ==
  Normalized =>
    /\ result.kind = "none" =>
         (pc = "fatal" /\ fatalErr = [kind |-> "reply", error |-> "Empty response from LLM"])
    /\ result.kind = "text" =>
         (pc = "fatal" /\ fatalErr = [kind |-> "reply", error |-> "Failed to parse LLM JSON"])
    /\ ( /\ result.kind = "json"
         /\ result.val.t # "array"
         /\ (result.val.t = "object" => ArrayKids(result.val) = {}) ) =>
         (pc = "fatal" /\ fatalErr = [kind |-> "reply", error |-> "Expected array of records"])

(***************************************************************************)
(* Pacing of the queries, checked under Spec                               *)
(***************************************************************************)
\* the getAccessStatuses calls that neither returned nor raised yet
InFlight == Len(dispatched) - answered

\* a step that hands a batch to getAccessStatuses
DispatchStep == Len(dispatched') = Len(dispatched) + 1

C14_DispatchStep ==
  DispatchStep =>
    /\ InFlight = 0
    /\ dispatched # <<>> => sinceAnswer >= InterBatchPause

\* C14: at no time are two batch queries in flight, and the query of the next
\* batch is dispatched only when the query of the batch before has returned
\* and main has since waited the full 2000 ms.
C14_SequentialPaced ==
  /\ [](InFlight \in {0, 1} /\ (InFlight = 1 <=> pc = "query"))
  /\ [][C14_DispatchStep]_vars

C14_Witness ==
  /\ pc = "query"
  /\ Len(dispatched) = 2
  /\ answered = 1
  /\ sinceAnswer = InterBatchPause
  /\ sleeps # <<>>

(***************************************************************************)
(* Termination, checked under SpecRawLive                                  *)
(***************************************************************************)
Terminal == pc \in {"done", "fatal"}

\* the selects made for the record at position n
SelectsFor(n) == {k \in 1..Len(ops) : ops[k].i = n /\ ops[k].op = "select"}

\* C15: every run ends, in exactly one of Completed (every batch queried,
\* reconciliation attempted once over all the accumulated records) and
\* FatalAborted, and it is FatalAborted if and only if the query of some batch
\* ended in a fatal error.
C15_Terminates ==
  /\ <>Terminal
  /\ [][Terminal => pc' = pc]_vars
  /\ [](pc = "fatal" <=> fatalErr.kind \in {"oracle", "reply"})
  /\ [](pc = "done" =>
          /\ fatalErr = NoFatal
          /\ Flatten(dispatched) = countries
          /\ answered = Len(dispatched)
          /\ \A n \in 1..Len(allResults) : Cardinality(SelectsFor(n)) = 1)

(***************************************************************************)
(* A concurrent writer, checked under SpecRace                             *)
(***************************************************************************)
\* the store calls that wrote a status to the key, by position in the log
WritesTo(key) ==
  {k \in 1..Len(ops) :
     IF ops[k].op = "post"
       THEN ops[k].substance = key[1] /\ key[2] \in DOMAIN ops[k].rows
       ELSE ops[k].op \in {"insert", "update"} /\ ops[k].ok /\ ops[k].key = key}

\* the status the last applied write gave the key
LastWritten(key) ==
  LET k == CHOOSE a \in WritesTo(key) : \A b \in WritesTo(key) : b <= a
  IN IF ops[k].op = "post" THEN ops[k].rows[key[2]] ELSE ops[k].status

\* the handler wrote the key between the select of some record with that key
\* and the end of the loop body of that record
Raced(key) ==
  \E a, b \in 1..Len(ops) :
    /\ a < b
    /\ ops[a].op = "select" /\ ops[a].ok /\ ops[a].key = key
    /\ ops[b].op = "post" /\ b \in WritesTo(key)
    /\ ops[a].i < idx
    /\ \A c \in (a + 1)..(b - 1) : ops[c].op = "post"

\* C16: when the handler writes a key between the select and the write
\* upsertRecords makes for that key, the table ends with one row for the key,
\* and its status is that of the write applied last.
C16_LastWriteWins ==
  pc = "done" =>
    \A key \in Keys :
      Raced(key) =>
        /\ Cardinality(Matching(store, key)) = 1
        /\ StatusesAt(store, key) = {LastWritten(key)}

(***************************************************************************)
(* withRetry called again, checked under SpecRetry                         *)
(***************************************************************************)
\* C17: every invocation of withRetry has its own budget: whatever the earlier
\* invocations consumed, attempt counts the failures of this invocation alone,
\* the first backoff delay is 2000 ms again, and only maxRetries + 1 retryable
\* failures of this invocation make it raise.
C17_OwnBudget ==
  /\ attempt = IF rpc = "returned" THEN execs - 1 ELSE execs
  /\ warns # <<>> => warns[1] = <<1, BaseDelay>>
  /\ sleeps # <<>> => sleeps[1] = BaseDelay
  /\ rpc = "sleep" => attempt <= maxRetries
  /\ (rpc = "thrown" /\ failures \subseteq {429, 500}) => execs = maxRetries + 1

C17_Witness ==
  /\ calls = 1
  /\ spent = DefaultMaxRetries
  /\ maxRetries = DefaultMaxRetries
  /\ rpc = "thrown"
  /\ failures = {429}
  /\ execs = DefaultMaxRetries + 1
  /\ sleeps[1] = BaseDelay

\* C18: withRetry emits one warning per retry: the warnings are as many as the
\* sleeps begun and as the re-executions that follow them, and each warning
\* carries the attempt number and the delay slept next.
C18_OneWarningPerRetry ==
  /\ Len(warns) = Len(sleeps) + (IF rpc = "sleep" THEN 1 ELSE 0)
  /\ execs = Len(sleeps) + (IF rpc = "call" THEN 0 ELSE 1)
  /\ rpc \in {"returned", "thrown"} =>
       (Len(warns) = execs - 1 /\ Len(sleeps) = execs - 1)
  /\ \A k \in 1..Len(sleeps) : warns[k] = <<k, sleeps[k]>>
  /\ rpc = "sleep" => warns[Len(warns)] = <<attempt, delay>>

C18_Witness ==
  /\ rpc = "returned"
  /\ execs = 3
  /\ warns = <<<<1, 2000>>, <<2, 4000>>>>
  /\ sleeps = <<2000, 4000>>

(***************************************************************************)
(* Convergence of a run, checked under Spec                                *)
(***************************************************************************)
\* the positions of the records with the key
Occurrences(key) == {k \in 1..Len(allResults) : KeyOf(allResults[k]) = key}

\* the status of the last record with the key
LastStatus(key) ==
  LET k == CHOOSE a \in Occurrences(key) : \A b \in Occurrences(key) : b <= a
  IN allResults[k].access_status

\* a step in which getAccessStatuses returns records to main
ReplyStep == pc = "query" /\ pc' = "pause"

C19_ReplyStep == ReplyStep => allResults' = allResults \o results'

\* C19: the accumulated records are the replies of the batches one after the
\* other, nothing dropped, reordered or removed as a duplicate; and after a
\* run that completed without store error (no other writer) every key that
\* occurs in them has the status of the last record with that key.
C19_Convergence ==
  /\ [][C19_ReplyStep]_vars
  /\ []((pc = "done" /\ storeErrs = 0) =>
          \A key \in Keys :
            Occurrences(key) # {} => StatusesAt(store, key) = {LastStatus(key)})

C19_Witness ==
  /\ pc = "done"
  /\ storeErrs = 0
  /\ Len(dispatched) = 2
  /\ Len(allResults) = 2
  /\ KeyOf(allResults[1]) = KeyOf(allResults[2])
  /\ allResults[1].access_status # allResults[2].access_status
  /\ \E k \in 1..Len(ops) : ops[k].op = "insert" /\ ops[k].ok /\ ops[k].i = 1
  /\ \E k \in 1..Len(ops) : ops[k].op = "update" /\ ops[k].ok /\ ops[k].i = 2

(***************************************************************************)
(* Frame of upsertRecords, checked under SpecReconcile                     *)
(***************************************************************************)
\* a step of the loop body of upsertRecords for the record at idx
C20_FrameStep ==
  (pc = "upsert" /\ pc' = "upsert" /\ idx <= Len(allResults)) =>
    LET key == KeyOf(allResults[idx])
    IN /\ {row \in store' : RowKey(row) # key} = {row \in store : RowKey(row) # key}
       /\ \A row \in store : \E kept \in store' : kept.id = row.id
       /\ \A row \in store \ store' :
            /\ row.id = existing.id
            /\ \E kept \in store' :
                 kept = [row EXCEPT !.access_status = kept.access_status,
                                    !.updated_at = kept.updated_at]
       /\ Cardinality(store' \ store) <= 1

\* C20: processing a record never creates, changes or deletes a row of another
\* key, no row is ever deleted, and an update changes only the status and the
\* timestamp of the one row the select found.
C20_Frame == [][C20_FrameStep]_vars

C20_Witness ==
  /\ pc = "done"
  /\ mode = "first"
  /\ Cardinality(store0) = 2
  /\ \E k \in 1..Len(ops) :
       /\ ops[k].op = "update" /\ ops[k].ok
       /\ \E row \in store : RowKey(row) # ops[k].key /\ row \in store0

=============================================================================
